---------------------------- MODULE Spec2Model ----------------------------
(***************************************************************************)
(* The RS485/Modbus VFD spindle of Grbl_Esp32                              *)
(* (src/Grbl_Esp32/src/Spindles/VFDSpindle.cpp): the foreground API        *)
(* (init, set_state, set_mode, set_rpm, stop, get_state), the command      *)
(* queue, and the background communications task vfd_cmd_task.             *)
(*                                                                         *)
(* Granularity.  A foreground call is one step, except that set_state is   *)
(* split at mc_dwell: the dwell blocks the caller for a configured time    *)
(* while the communications task keeps running.  One iteration of the      *)
(* task is two steps: the choice of the command (lines 62-128), where the  *)
(* task reads the queue and _max_rpm, and the transaction (lines 130-202): *)
(* the retry loop and the end of the iteration.  Between the two the task  *)
(* touches only its own variables and the UART, and, in the parser of the  *)
(* last attempt, the fields of the VFD; foreground calls that run while    *)
(* the task sleeps inside the loop commute with the attempts, so they are  *)
(* taken before or after the transaction.                                  *)
(*                                                                         *)
(* sys.abort, sys.state and sys.spindle_speed_ovr are written by other     *)
(* parts of the firmware; every call reads an arbitrary value of them,     *)
(* drawn as an input of the call.                                          *)
(***************************************************************************)
EXTENDS Integers, Sequences, FiniteSets, TLC

\* ------------------------------------------------------------------ bounds

\* RPM values range over 0..MaxRpm (the firmware's are uint32_t).
MaxRpm == 3

\* Slots of vfd_cmd_queue.  The firmware creates it with
\* VFD_RS485_QUEUE_SIZE = 10 slots (line 39); the model scales it down.
QueueSlots == 2

\* sys.report_ovr_counter is reloaded with REPORT_OVR_REFRESH_*_COUNT - 1
\* (report.cpp lines 690-691); the model scales the reload count down.
OvrRefreshCount == 2

\* otherwise the spindle is marked 'unresponsive' (VFDSpindle.h)
MAX_RETRIES == 3

\* ------------------------------------------------------------------ values

RpmVals == 0..MaxRpm

\* SpindleState
Disable == "Disable"
Cw      == "Cw"
Ccw     == "Ccw"
SpindleStates == {Disable, Cw, Ccw}

\* sys.spindle_speed_ovr, a percentage
OvrVals == {50, 100, 200}

\* rpm_min / rpm_max settings read by get_pins_and_settings: every pair, and
\* the two the whole system is run with (maximum unknown; minimum < maximum).
AllRpmSettings == RpmVals \X RpmVals
RpmSettings == {<<0, 0>>, <<MaxRpm - 1, MaxRpm>>}

\* Outcomes of init's checks: "ok", a fault found by get_pins_and_settings
\* (a missing pin, laser mode), or a failing uart_* call after the driver
\* was deleted.
InitOutcomes == {"ok", "settings", "uart"}

\* What the vendor class implements: each get_* returns a parser or nullptr.
Vendor(max, rpm, dir, status) ==
    [max_rpm |-> max, cur_rpm |-> rpm, cur_dir |-> dir, status |-> status]
FullVendor    == Vendor(TRUE, TRUE, TRUE, TRUE)
MinimalVendor == Vendor(FALSE, FALSE, FALSE, TRUE)
Vendors == {FullVendor, MinimalVendor}

\* What uart_read_bytes delivers for one attempt.
Responses == {"valid", "nodata", "short", "foreign", "badcrc"}

\* A ModbusCommand: what it asks of the VFD, its critical flag, its operand.
ModeCmd(mode, critical) == [kind |-> "mode", critical |-> critical, val |-> mode]
RpmCmd(rpm)             == [kind |-> "rpm", critical |-> FALSE, val |-> rpm]
PollCmd(kind, critical) == [kind |-> kind, critical |-> critical, val |-> 0]
NoCmd                   == [kind |-> "none", critical |-> FALSE, val |-> 0]

NoParser == "none"

\* Nothing records what the task writes to the UART.
Unwatched == <<>>

VARIABLES
    inited,              \* VFD::init has been called
    vfd_ok,              \* VFD::vfd_ok
    task_running,        \* VFD::_task_running
    tasks_created,       \* how many times init has created the queue and the task
    min_rpm,             \* VFD::_min_rpm
    max_rpm,             \* VFD::_max_rpm
    current_rpm,         \* VFD::_current_rpm
    current_state,       \* VFD::_current_state
    spindle_speed,       \* sys.spindle_speed
    report_ovr_counter,  \* sys.report_ovr_counter
    queue,               \* vfd_cmd_queue
    vendor,              \* which get_* the vendor class implements
    fg,                  \* the foreground caller: "idle", or inside mc_dwell
    pc,                  \* vfd_cmd_task: at the "top" of the loop, or "fetched"
    pollidx,             \* static int pollidx
    unresponsive,        \* static bool unresponsive
    next_cmd,            \* ModbusCommand next_cmd
    parser,              \* response_parser parser
    alarms,              \* calls of system_set_exec_alarm(SpindleControl) and
    unresp_logs,         \* "Spindle RS485 Unresponsive" messages, both counted
                         \* since the last response that passed the checks
    sent_rpm             \* where the wire is watched, <<rpm>> of the last
                         \* set_rpm command written to the UART (else Unwatched)

vars == <<inited, vfd_ok, task_running, tasks_created, min_rpm, max_rpm,
          current_rpm,
          current_state, spindle_speed, report_ovr_counter, queue, vendor, fg,
          pc, pollidx, unresponsive, next_cmd, parser, alarms, unresp_logs,
          sent_rpm>>

dev_vars  == <<inited, vfd_ok, task_running, tasks_created, min_rpm, max_rpm,
               current_rpm,
               current_state, spindle_speed, report_ovr_counter>>
task_vars == <<pc, pollidx, unresponsive, next_cmd, parser, alarms, unresp_logs,
               sent_rpm>>

Idle == [at |-> "idle", state |-> Disable]

\* The state after construction, before the firmware's first call of init.
Init ==
    /\ inited = FALSE
    /\ vfd_ok = FALSE
    /\ task_running = FALSE
    /\ tasks_created = 0
    /\ min_rpm = 0
    /\ max_rpm = 0
    /\ current_rpm = 0
    /\ current_state = Disable
    /\ spindle_speed = 0
    /\ report_ovr_counter = 0
    /\ queue = <<>>
    /\ vendor \in Vendors
    /\ fg = Idle
    /\ pc = "top"
    /\ pollidx = 0
    /\ unresponsive = FALSE
    /\ next_cmd = NoCmd
    /\ parser = NoParser
    /\ alarms = 0
    /\ unresp_logs = 0
    /\ sent_rpm = Unwatched

\* Counters of the model saturate at 2: what is asked of them is "none",
\* "one" or "more than one".
Bump(n) == IF n < 2 THEN n + 1 ELSE n

\* ------------------------------------------------------- the command queue

\* A send that makes room in a full queue by dropping its oldest item.
xQueueSend_Overwrites(q, cmd) ==
    IF Len(q) < QueueSlots THEN Append(q, cmd) ELSE Append(Tail(q), cmd)

\* xQueueSend(vfd_cmd_queue, &cmd, 0): no wait; a full queue refuses the item.
xQueueSend(q, cmd) == IF Len(q) < QueueSlots THEN Append(q, cmd) ELSE q

\* xQueueReset(vfd_cmd_queue)
xQueueReset(q) == <<>>

\* ------------------------------------------------------- the foreground API

\* The fields a call works on: the queue, _current_state, _current_rpm,
\* sys.spindle_speed, the value returned, and how many commands it queued.
Dev == [q |-> queue, state |-> current_state, rpm |-> current_rpm,
        speed |-> spindle_speed, ret |-> 0, enq |-> 0]

\* Lines 389-391 and 432-434: send, or report "VFD Queue Full" and go on.
Queued(d, cmd) ==
    LET q1 == xQueueSend(d.q, cmd)
    IN  [d EXCEPT !.q = q1, !.enq = d.enq + (Len(q1) - Len(d.q))]

\* rpm = rpm * sys.spindle_speed_ovr / 100
ScaleRpm(rpm, ovr) == (rpm * ovr) \div 100

\* The limits without the raise to the minimum.
ClampRpm_NoFloor(rpm, mn, mx) == IF mn >= mx \/ rpm >= mx THEN mx ELSE rpm

\* apply limits
ClampRpm(rpm, mn, mx) ==
    IF mn >= mx \/ rpm >= mx THEN mx
    ELSE IF rpm # 0 /\ rpm <= mn THEN mn
    ELSE rpm

\* set_mode without the reset of the queue on Disable.
set_mode_NoReset(d, mode, critical) ==
    IF ~vfd_ok THEN d
    ELSE Queued([d EXCEPT !.state = mode], ModeCmd(mode, critical))

\* bool VFD::set_mode(SpindleState mode, bool critical)
set_mode(d, mode, critical) ==
    IF ~vfd_ok THEN d
    ELSE LET d1 == IF mode = Disable THEN [d EXCEPT !.q = xQueueReset(d.q)] ELSE d
         IN  Queued([d1 EXCEPT !.state = mode], ModeCmd(mode, critical))

\* set_rpm without the comparison with the cached RPM.
set_rpm_NoCompare(d, rpm, ovr) ==
    IF ~vfd_ok THEN [d EXCEPT !.ret = 0]
    ELSE LET r == ClampRpm(ScaleRpm(rpm, ovr), min_rpm, max_rpm)
         IN  Queued([d EXCEPT !.speed = r, !.ret = r, !.rpm = r], RpmCmd(r))

\* set_rpm without the test of vfd_ok.
set_rpm_NoGuard(d, rpm, ovr) ==
    LET r == ClampRpm(ScaleRpm(rpm, ovr), min_rpm, max_rpm)
    IN  IF r = d.rpm
        THEN [d EXCEPT !.speed = r, !.ret = r]
        ELSE Queued([d EXCEPT !.speed = r, !.ret = r, !.rpm = r], RpmCmd(r))

\* uint32_t VFD::set_rpm(uint32_t rpm)
set_rpm(d, rpm, ovr) ==
    IF ~vfd_ok THEN [d EXCEPT !.ret = 0]
    ELSE LET r == ClampRpm(ScaleRpm(rpm, ovr), min_rpm, max_rpm)
         IN  IF r = d.rpm
             THEN [d EXCEPT !.speed = r, !.ret = r]
             ELSE Queued([d EXCEPT !.speed = r, !.ret = r, !.rpm = r], RpmCmd(r))

\* The dwell set_state asks for once set_mode and set_rpm have run and left
\* the cached state at cached.
Dwell(cached, state) ==
    IF cached = state THEN "none"
    ELSE IF state = Disable THEN "spindown" ELSE "spinup"

\* set_state with a mode command critical only while a job runs.
set_state_CycleOnly(d, state, rpm, cycle, ovr) ==
    IF d.state # state
    THEN LET d2 == set_rpm(set_mode(d, state, cycle), rpm, ovr)
         IN  IF state = Disable THEN [d2 EXCEPT !.speed = 0] ELSE d2
    ELSE IF d.rpm # rpm THEN set_rpm(d, rpm, ovr) ELSE d

\* VFD::set_state without abort, up to its mc_dwell: the fields it leaves.
set_state(d, state, rpm, cycle, ovr) ==
    LET critical == cycle \/ state # Disable
    IN  IF d.state # state
        THEN LET d2 == set_rpm(set_mode(d, state, critical), rpm, ovr)
             IN  IF state = Disable THEN [d2 EXCEPT !.speed = 0] ELSE d2
        ELSE IF d.rpm # rpm THEN set_rpm(d, rpm, ovr) ELSE d

\* SpindleState VFD::get_state()
get_state == current_state

Store(d) ==
    \E v \in {d} :
       /\ queue' = v.q
       /\ current_state' = v.state
       /\ current_rpm' = v.rpm
       /\ spindle_speed' = v.speed

\* set_state without the test of sys.abort.
SetState_IgnoresAbort(state, rpm, abort, cycle, ovr) ==
    /\ inited
    /\ fg.at = "idle"
    /\ LET d == set_state(Dev, state, rpm, cycle, ovr)
           dwell == IF current_state # state THEN Dwell(d.state, state)
                    ELSE "none"
       IN  IF dwell = "none"
           THEN /\ Store([d EXCEPT !.state = state])
                /\ report_ovr_counter' = 0
                /\ fg' = fg
           ELSE /\ Store(d)
                /\ fg' = [at |-> dwell, state |-> state]
                /\ UNCHANGED report_ovr_counter
    /\ UNCHANGED <<inited, vfd_ok, task_running, tasks_created, min_rpm,
                   max_rpm, vendor>>
    /\ UNCHANGED task_vars

\* void VFD::set_state(SpindleState state, uint32_t rpm), up to the dwell or,
\* with no dwell, to its return.  The dwell is asked for only on the branch
\* that changes the state.
SetState(state, rpm, abort, cycle, ovr) ==
    /\ inited
    /\ fg.at = "idle"
    /\ IF abort
       THEN UNCHANGED <<queue, current_state, current_rpm, spindle_speed,
                        report_ovr_counter, fg>>
       ELSE LET d == set_state(Dev, state, rpm, cycle, ovr)
                dwell == IF current_state # state THEN Dwell(d.state, state)
                         ELSE "none"
            IN  IF dwell = "none"
                THEN /\ Store([d EXCEPT !.state = state])
                     /\ report_ovr_counter' = 0
                     /\ fg' = fg
                ELSE /\ Store(d)
                     /\ fg' = [at |-> dwell, state |-> state]
                     /\ UNCHANGED report_ovr_counter
    /\ UNCHANGED <<inited, vfd_ok, task_running, tasks_created, min_rpm,
                   max_rpm, vendor>>
    /\ UNCHANGED task_vars

\* The return from the dwell without the store of the state.
SetStateReturn_NoStore ==
    /\ fg.at # "idle"
    /\ report_ovr_counter' = 0
    /\ fg' = Idle
    /\ UNCHANGED <<inited, vfd_ok, task_running, tasks_created, min_rpm,
                   max_rpm, current_rpm,
                   current_state, spindle_speed, queue, vendor>>
    /\ UNCHANGED task_vars

\* mc_dwell returns; set_state stores the state and returns.
SetStateReturn ==
    /\ fg.at # "idle"
    /\ current_state' = fg.state
    /\ report_ovr_counter' = 0
    /\ fg' = Idle
    /\ UNCHANGED <<inited, vfd_ok, task_running, tasks_created, min_rpm,
                   max_rpm, current_rpm,
                   spindle_speed, queue, vendor>>
    /\ UNCHANGED task_vars

\* A direct call of VFD::set_rpm.
SetRpm(rpm, ovr) ==
    /\ inited
    /\ fg.at = "idle"
    /\ Store(set_rpm(Dev, rpm, ovr))
    /\ UNCHANGED <<inited, vfd_ok, task_running, tasks_created, min_rpm, max_rpm,
                   report_ovr_counter, vendor, fg>>
    /\ UNCHANGED task_vars

\* stop with a critical disable command.
Stop_Critical ==
    /\ inited
    /\ fg.at = "idle"
    /\ Store(set_mode(Dev, Disable, TRUE))
    /\ UNCHANGED <<inited, vfd_ok, task_running, tasks_created, min_rpm, max_rpm,
                   report_ovr_counter, vendor, fg>>
    /\ UNCHANGED task_vars

\* void VFD::stop()
Stop ==
    /\ inited
    /\ fg.at = "idle"
    /\ Store(set_mode(Dev, Disable, FALSE))
    /\ UNCHANGED <<inited, vfd_ok, task_running, tasks_created, min_rpm, max_rpm,
                   report_ovr_counter, vendor, fg>>
    /\ UNCHANGED task_vars

\* A call of VFD::get_state: it changes nothing.
GetState ==
    /\ inited
    /\ get_state \in SpindleStates
    /\ UNCHANGED vars

\* init creating the queue and the task on every success.
VfdInit_AlwaysCreates(cfg, outcome) ==
    /\ fg.at = "idle"
    /\ inited' = TRUE
    /\ min_rpm' = cfg[1]
    /\ max_rpm' = cfg[2]
    /\ IF outcome = "ok"
       THEN /\ vfd_ok' = TRUE
            /\ task_running' = TRUE
            /\ tasks_created' = Bump(tasks_created)
            /\ current_rpm' = 0
            /\ current_state' = Disable
       ELSE /\ vfd_ok' = FALSE
            /\ UNCHANGED <<task_running, tasks_created, current_rpm, current_state>>
    /\ UNCHANGED <<spindle_speed, report_ovr_counter, queue, vendor, fg>>
    /\ UNCHANGED task_vars

\* init emptying the queue on every success.
VfdInit_ResetsQueue(cfg, outcome) ==
    /\ fg.at = "idle"
    /\ inited' = TRUE
    /\ min_rpm' = cfg[1]
    /\ max_rpm' = cfg[2]
    /\ IF outcome = "ok"
       THEN /\ vfd_ok' = TRUE
            /\ task_running' = TRUE
            /\ tasks_created' = IF task_running THEN tasks_created
                                ELSE Bump(tasks_created)
            /\ current_rpm' = 0
            /\ current_state' = Disable
            /\ queue' = xQueueReset(queue)
       ELSE /\ vfd_ok' = FALSE
            /\ UNCHANGED <<task_running, tasks_created, current_rpm, current_state,
                           queue>>
    /\ UNCHANGED <<spindle_speed, report_ovr_counter, vendor, fg>>
    /\ UNCHANGED task_vars

\* void VFD::init(), reading rpm_min/rpm_max = cfg.  get_pins_and_settings
\* stores the RPM bounds before it reports a fault; the task and the queue are
\* created on the first success only.
VfdInit(cfg, outcome) ==
    /\ fg.at = "idle"
    /\ inited' = TRUE
    /\ min_rpm' = cfg[1]
    /\ max_rpm' = cfg[2]
    /\ IF outcome = "ok"
       THEN /\ vfd_ok' = TRUE
            /\ task_running' = TRUE
            /\ tasks_created' = IF task_running THEN tasks_created
                                ELSE Bump(tasks_created)
            /\ current_rpm' = 0
            /\ current_state' = Disable
       ELSE /\ vfd_ok' = FALSE
            /\ UNCHANGED <<task_running, tasks_created, current_rpm, current_state>>
    /\ UNCHANGED <<spindle_speed, report_ovr_counter, queue, vendor, fg>>
    /\ UNCHANGED task_vars

\* report_realtime_status, REPORT_FIELD_OVERRIDES: the counter counts down and
\* is reloaded at zero.
ReportStatus ==
    /\ report_ovr_counter' = IF report_ovr_counter > 0
                             THEN report_ovr_counter - 1
                             ELSE OvrRefreshCount - 1
    /\ UNCHANGED <<inited, vfd_ok, task_running, tasks_created, min_rpm,
                   max_rpm, current_rpm,
                   current_state, spindle_speed, queue, vendor, fg>>
    /\ UNCHANGED task_vars

\* ------------------------------------------------------- the communications task

\* The value get_max_rpm's parser stores in _max_rpm (vendor code).
DiscoveredRpm == MaxRpm

\* Line 69: the first iteration (pollidx == 0) and a pending discovery of
\* the maximum RPM are critical; only the latter has a parser.
Discovery == pollidx # 0 /\ max_rpm = 0 /\ vendor.max_rpm
FirstOrDiscovery == pollidx = 0 \/ Discovery

\* A switch whose cases do not fall through: the read at idx or none.
PollNext_NoFallThrough(idx) ==
    IF idx = 1
    THEN [parser |-> IF vendor.cur_rpm THEN "cur_rpm" ELSE NoParser, idx |-> 2]
    ELSE IF idx = 2
    THEN [parser |-> IF vendor.cur_dir THEN "cur_dir" ELSE NoParser, idx |-> 3]
    ELSE IF idx = 3
    THEN [parser |-> IF vendor.status THEN "status" ELSE NoParser, idx |-> 1]
    ELSE [parser |-> NoParser, idx |-> idx]

\* The switch of lines 80-102, entered at idx: the parser it yields and the
\* pollidx it leaves.
PollNext(idx) ==
    IF idx = 1 /\ vendor.cur_rpm
    THEN [parser |-> "cur_rpm", idx |-> 2]
    ELSE IF idx \in {1, 2} /\ vendor.cur_dir
    THEN [parser |-> "cur_dir", idx |-> 3]
    ELSE IF idx \in {1, 2, 3}
    THEN [parser |-> IF vendor.status THEN "status" ELSE NoParser, idx |-> 1]
    ELSE [parser |-> NoParser, idx |-> idx]

\* A choice of the command that waits for the queue without a timeout.
TaskFetch_WaitsForQueue ==
    /\ task_running
    /\ pc = "top"
    /\ queue # <<>>
    /\ parser' = NoParser
    /\ next_cmd' = Head(queue)
    /\ queue' = Tail(queue)
    /\ pollidx' = IF FirstOrDiscovery THEN 1 ELSE pollidx
    /\ pc' = "fetched"
    /\ UNCHANGED <<unresponsive, alarms, unresp_logs, sent_rpm, vendor, fg>>
    /\ UNCHANGED dev_vars

\* Lines 62-128: choose the command of this iteration; with no parser and
\* an empty queue, sleep and start over.
TaskFetch ==
    /\ task_running
    /\ pc = "top"
    /\ LET critical == FirstOrDiscovery
           idx1 == IF critical THEN 1 ELSE pollidx
           poll == PollNext(idx1)
       IN  IF Discovery
           THEN /\ parser' = "max_rpm"
                /\ next_cmd' = PollCmd("max_rpm", TRUE)
                /\ pollidx' = idx1
                /\ pc' = "fetched"
                /\ UNCHANGED queue
           ELSE IF queue # <<>>
           THEN /\ parser' = NoParser
                /\ next_cmd' = Head(queue)
                /\ queue' = Tail(queue)
                /\ pollidx' = idx1
                /\ pc' = "fetched"
           ELSE /\ parser' = IF poll.parser = NoParser THEN NoParser ELSE poll.parser
                /\ pollidx' = poll.idx
                /\ UNCHANGED queue
                /\ IF poll.parser = NoParser
                   THEN /\ next_cmd' = NoCmd
                        /\ pc' = "top"
                   ELSE /\ next_cmd' = PollCmd(poll.parser, critical)
                        /\ pc' = "fetched"
    /\ UNCHANGED <<unresponsive, alarms, unresp_logs, sent_rpm, vendor, fg>>
    /\ UNCHANGED dev_vars

\* Lines 143-146: the response has the expected length, comes from
\* VFD_RS485_ADDR and carries its CRC.
Accepted(resp) == resp = "valid"

\* An attempt whose success does not end the loop.
Attempt_KeepsSending(t, resp, happy) ==
    IF Accepted(resp)
    THEN [t EXCEPT !.unresponsive = parser # NoParser /\ ~happy,
                   !.sent = t.sent + 1,
                   !.parsed = t.parsed + (IF parser # NoParser THEN 1 ELSE 0),
                   !.accepted = TRUE,
                   !.happy = parser # NoParser /\ happy]
    ELSE [t EXCEPT !.sent = t.sent + 1, !.failed = t.failed + 1]

\* An attempt that goes on retrying when the parser rejects the response.
Attempt_RetriesRejected(t, resp, happy) ==
    IF Accepted(resp)
    THEN [t EXCEPT !.unresponsive = parser # NoParser /\ ~happy,
                   !.retry_count = IF parser # NoParser /\ ~happy
                                   THEN t.retry_count ELSE MAX_RETRIES + 1,
                   !.sent = t.sent + 1,
                   !.parsed = t.parsed + (IF parser # NoParser THEN 1 ELSE 0),
                   !.accepted = TRUE,
                   !.happy = parser # NoParser /\ happy]
    ELSE [t EXCEPT !.sent = t.sent + 1, !.failed = t.failed + 1]

\* An attempt whose success leaves the unresponsive flag as it was.
Attempt_KeepsFlag(t, resp, happy) ==
    IF Accepted(resp)
    THEN [t EXCEPT !.unresponsive = t.unresponsive \/ (parser # NoParser /\ ~happy),
                   !.retry_count = MAX_RETRIES + 1,
                   !.sent = t.sent + 1,
                   !.parsed = t.parsed + (IF parser # NoParser THEN 1 ELSE 0),
                   !.accepted = TRUE,
                   !.happy = parser # NoParser /\ happy]
    ELSE [t EXCEPT !.sent = t.sent + 1, !.failed = t.failed + 1]

\* Lines 133-188: one pass of the retry loop on t, the task's retry_count
\* and unresponsive with the frames sent, the attempts failed and the calls
\* of the parser so far.  happy is the parser's verdict.
Attempt(t, resp, happy) ==
    IF Accepted(resp)
    THEN [t EXCEPT !.unresponsive = parser # NoParser /\ ~happy,
                   !.retry_count = MAX_RETRIES + 1,
                   !.sent = t.sent + 1,
                   !.parsed = t.parsed + (IF parser # NoParser THEN 1 ELSE 0),
                   !.accepted = TRUE,
                   !.happy = parser # NoParser /\ happy]
    ELSE [t EXCEPT !.sent = t.sent + 1, !.failed = t.failed + 1]

\* Lines 131-189: for (; retry_count < MAX_RETRIES; ++retry_count), reading
\* resps[n] at the n-th attempt.
RECURSIVE RetryLoop(_, _, _)
RetryLoop(t, resps, happy) ==
    IF t.retry_count < MAX_RETRIES
    THEN LET t1 == Attempt(t, resps[t.sent + 1], happy)
         IN  RetryLoop([t1 EXCEPT !.retry_count = t1.retry_count + 1], resps, happy)
    ELSE t

\* The retry loop of this iteration, from retry_count = 0.
Loop(resps, happy) ==
    RetryLoop([retry_count |-> 0, unresponsive |-> unresponsive, sent |-> 0,
               failed |-> 0, parsed |-> 0, accepted |-> FALSE, happy |-> FALSE],
              resps, happy)

\* The end of the iteration without the test of the unresponsive flag.
AtEnd_NoDebounce(t, critical) ==
    IF t.retry_count = MAX_RETRIES
    THEN [unresponsive |-> TRUE, logged |-> TRUE, raised |-> critical]
    ELSE [unresponsive |-> t.unresponsive, logged |-> FALSE, raised |-> FALSE]

\* Lines 191-200: after the loop: mark the spindle unresponsive, with the
\* message, and raise the alarm.
AtEnd(t, critical) ==
    IF t.retry_count = MAX_RETRIES /\ ~t.unresponsive
    THEN [unresponsive |-> TRUE, logged |-> TRUE, raised |-> critical]
    ELSE [unresponsive |-> t.unresponsive, logged |-> FALSE, raised |-> FALSE]

\* Lines 130-202: the retry loop, the end of the iteration and the sleep
\* before the next.
TaskTransact(resps, happy) ==
    /\ task_running
    /\ pc = "fetched"
    /\ \E t \in {Loop(resps, happy)} : \E e \in {AtEnd(t, next_cmd.critical)} :
           /\ unresponsive' = e.unresponsive
           /\ unresp_logs' = IF t.accepted THEN 0
                             ELSE IF e.logged THEN Bump(unresp_logs) ELSE unresp_logs
           /\ alarms' = IF t.accepted THEN 0
                        ELSE IF e.raised THEN Bump(alarms) ELSE alarms
           /\ max_rpm' = IF parser = "max_rpm" /\ t.happy THEN DiscoveredRpm ELSE max_rpm
    /\ sent_rpm' = IF sent_rpm # Unwatched /\ next_cmd.kind = "rpm"
                   THEN <<next_cmd.val>> ELSE sent_rpm
    /\ pc' = "top"
    /\ next_cmd' = NoCmd
    /\ parser' = NoParser
    /\ UNCHANGED <<pollidx, queue, vendor, fg>>
    /\ UNCHANGED <<inited, vfd_ok, task_running, tasks_created, min_rpm, current_rpm,
                   current_state, spindle_speed, report_ovr_counter>>

\* ------------------------------------------------------- the system

\* The responses of the VFD to the attempts of one transaction.
\* The arguments and the sys.* values of the calls of the whole system: the
\* RPM at its extremes, the override at 100 %.
CallStates == {Disable, Cw}
CallRpms   == {0, MaxRpm}
CallOvrs   == {100}

\* The link answers from the k-th attempt on, or never (k = MAX_RETRIES + 1):
\* the loop reads no response after the first that passes the checks.
AnswersFrom(k) == [n \in 1..MAX_RETRIES |-> IF n < k THEN "nodata" ELSE "valid"]
Runs == {AnswersFrom(k) : k \in 1..(MAX_RETRIES + 1)}

\* The whole system.
Next ==
    \/ \E cfg \in RpmSettings, outcome \in InitOutcomes : VfdInit(cfg, outcome)
    \/ \E state \in CallStates, rpm \in CallRpms, abort \in BOOLEAN,
          cycle \in BOOLEAN, ovr \in CallOvrs :
            SetState(state, rpm, abort, cycle, ovr)
    \/ SetStateReturn
    \/ \E rpm \in CallRpms, ovr \in CallOvrs : SetRpm(rpm, ovr)
    \/ Stop
    \/ GetState
    \/ TaskFetch
    \/ \E resps \in Runs, happy \in BOOLEAN : TaskTransact(resps, happy)

Spec == Init /\ [][Next]_vars

\* set_rpm alone on a device initialized under any RPM settings, with every
\* RPM and every override.
NextClamp ==
    \/ \E cfg \in AllRpmSettings, outcome \in InitOutcomes : VfdInit(cfg, outcome)
    \/ \E rpm \in RpmVals, ovr \in OvrVals : SetRpm(rpm, ovr)

SpecClamp == Init /\ [][NextClamp]_vars

\* The API alone, with every state and every override as arguments, and
\* the status report: the calls of the foreground while the task, if there
\* is one, is not scheduled.
InitApi == Init /\ vendor = MinimalVendor

NextApi ==
    \/ \E cfg \in RpmSettings, outcome \in InitOutcomes : VfdInit(cfg, outcome)
    \/ \E state \in SpindleStates, rpm \in CallRpms, abort \in BOOLEAN,
          cycle \in BOOLEAN, ovr \in OvrVals :
            SetState(state, rpm, abort, cycle, ovr)
    \/ SetStateReturn
    \/ \E rpm \in CallRpms, ovr \in OvrVals : SetRpm(rpm, ovr)
    \/ Stop
    \/ GetState
    \/ ReportStatus

SpecApi == InitApi /\ [][NextApi]_vars

\* The task on every vendor class: which of get_max_rpm, get_current_rpm,
\* get_current_direction and get_status_ok it implements, in all sixteen
\* combinations, with set_rpm filling the queue.
AllVendors == {Vendor(m, r, d, s) : m, r, d, s \in BOOLEAN}

InitPoll ==
    /\ inited = FALSE
    /\ vfd_ok = FALSE
    /\ task_running = FALSE
    /\ tasks_created = 0
    /\ min_rpm = 0
    /\ max_rpm = 0
    /\ current_rpm = 0
    /\ current_state = Disable
    /\ spindle_speed = 0
    /\ report_ovr_counter = 0
    /\ queue = <<>>
    /\ vendor \in AllVendors
    /\ fg = Idle
    /\ pc = "top"
    /\ pollidx = 0
    /\ unresponsive = FALSE
    /\ next_cmd = NoCmd
    /\ parser = NoParser
    /\ alarms = 0
    /\ unresp_logs = 0
    /\ sent_rpm = Unwatched

NextPoll ==
    \/ \E cfg \in RpmSettings : VfdInit(cfg, "ok")
    \/ \E rpm \in CallRpms : SetRpm(rpm, 100)
    \/ TaskFetch
    \/ \E resps \in Runs, happy \in BOOLEAN : TaskTransact(resps, happy)

SpecPoll == InitPoll /\ [][NextPoll]_vars

\* The same under the scheduler: vfd_cmd_task is a FreeRTOS task of its own
\* (lines 268-275), so a step it can take is eventually taken; nothing is
\* assumed of the foreground or of the link.
SpecPollLive ==
    /\ SpecPoll
    /\ WF_vars(TaskFetch)
    /\ WF_vars(\E resps \in Runs, happy \in BOOLEAN : TaskTransact(resps, happy))

\* The whole system under the scheduler: the task takes the steps it can
\* take; nothing is assumed of the foreground or of the link.
SpecLive ==
    /\ Spec
    /\ WF_vars(TaskFetch)
    /\ WF_vars(\E resps \in Runs, happy \in BOOLEAN : TaskTransact(resps, happy))

\* One successful init, then a single foreground caller of set_state,
\* set_rpm and stop, on a link whose every transaction succeeds at the
\* first attempt, with the wire watched: no set_rpm command was sent yet,
\* and the VFD starts at 0 RPM.  On the initialized device set_state never
\* waits in mc_dwell, so every call returns in its own step.
InitWatch ==
    /\ inited = FALSE
    /\ vfd_ok = FALSE
    /\ task_running = FALSE
    /\ tasks_created = 0
    /\ min_rpm = 0
    /\ max_rpm = 0
    /\ current_rpm = 0
    /\ current_state = Disable
    /\ spindle_speed = 0
    /\ report_ovr_counter = 0
    /\ queue = <<>>
    /\ vendor \in Vendors
    /\ fg = Idle
    /\ pc = "top"
    /\ pollidx = 0
    /\ unresponsive = FALSE
    /\ next_cmd = NoCmd
    /\ parser = NoParser
    /\ alarms = 0
    /\ unresp_logs = 0
    /\ sent_rpm = <<0>>

NextWatch ==
    \/ /\ ~inited
       /\ \E cfg \in RpmSettings : VfdInit(cfg, "ok")
    \/ \E state \in CallStates, rpm \in CallRpms, abort \in BOOLEAN,
          cycle \in BOOLEAN, ovr \in CallOvrs :
            SetState(state, rpm, abort, cycle, ovr)
    \/ \E rpm \in CallRpms, ovr \in CallOvrs : SetRpm(rpm, ovr)
    \/ Stop
    \/ TaskFetch
    \/ TaskTransact(AnswersFrom(1), TRUE)

SpecWatch == InitWatch /\ [][NextWatch]_vars

\* ------------------------------------------------------- the frames on the wire

\* Bytes of a command before its CRC, and bytes of the expected response
\* before its CRC, are at most MaxMsgLen.
MaxMsgLen == 2

\* #define VFD_RS485_ADDR 0x01
VFD_RS485_ADDR == 1

\* The bytes commands and responses are drawn from; the bytes of a CRC
\* range over 0..255.
ByteVals == {0, VFD_RS485_ADDR, 255}

\* rx_message as far as a response can fill it.
RxBufLen == MaxMsgLen + 2

\* uint16_t(-1): what read_length holds when uart_read_bytes fails.
ReadError == 65535

\* a ^ b on the n low bits, bit by bit.
RECURSIVE XorBits(_, _, _)
XorBits(a, b, n) ==
    IF n = 0 THEN 0
    ELSE ((a + b) % 2) + 2 * XorBits(a \div 2, b \div 2, n - 1)

\* crc ^= uint16_t(buf[pos]): the byte changes the low byte of crc.
XorByte(crc, byte) == (crc \div 256) * 256 + XorBits(crc % 256, byte % 256, 8)

\* x ^ bit for a single bit (a power of 2), and crc ^= 0xA001: the bits
\* 0x8000, 0x2000 and 0x0001, on uint16_t.
FlipBit(x, bit) == IF (x \div bit) % 2 = 1 THEN x - bit ELSE x + bit
XorA001(crc) == FlipBit(FlipBit(FlipBit(crc % 65536, 1), 8192), 32768)

\* Lines 453-462: the loop over the 8 bits of one byte, i bits to go.
RECURSIVE CrcBits(_, _)
CrcBits(crc, i) ==
    IF i = 0 THEN crc
    ELSE IF crc % 2 # 0
    THEN CrcBits(XorA001(crc \div 2), i - 1)
    ELSE CrcBits(crc \div 2, i - 1)

\* uint16_t VFD::ModRTU_CRC(uint8_t* buf, int msg_len): crc starts at
\* 0xFFFF and takes the bytes buf[0 .. msg_len-1] (1 .. msg_len here) in
\* order, the last one last.
RECURSIVE ModRTU_CRC(_, _)
ModRTU_CRC(buf, msg_len) ==
    IF msg_len = 0 THEN 65535
    ELSE CrcBits(XorByte(ModRTU_CRC(buf, msg_len - 1), buf[msg_len]), 8)

\* (crc16 & 0xFF) and (crc16 & 0xFF00) >> 8
CrcLow(crc16)  == crc16 % 256
CrcHigh(crc16) == (crc16 \div 256) % 256

\* A ModbusCommand with its bytes: msg[0 .. tx_length-1] is msg here.
Frame(msg, rx_length, critical) ==
    [kind |-> "frame", critical |-> critical, val |-> 0,
     msg |-> msg, tx_length |-> Len(msg), rx_length |-> rx_length]

SeqsUpTo(S, n) == UNION {[1..k -> S] : k \in 0..n}

\* The commands the vendor class and the API can hand to the task.
Commands ==
    {Frame(msg, rx, critical) :
        msg \in SeqsUpTo(ByteVals, MaxMsgLen), rx \in 0..MaxMsgLen,
        critical \in BOOLEAN}

\* A frame whose CRC bytes are stored high byte first.
AddCrc_HighFirst(cmd) ==
    LET crc16 == ModRTU_CRC(cmd.msg, cmd.tx_length)
    IN  [cmd EXCEPT !.msg = cmd.msg \o <<CrcHigh(crc16), CrcLow(crc16)>>,
                    !.tx_length = cmd.tx_length + 2,
                    !.rx_length = cmd.rx_length + 2]

\* Lines 112-121: the CRC of the command is stored after its bytes, low
\* byte first, and both lengths grow by 2.
AddCrc(cmd) ==
    LET crc16 == ModRTU_CRC(cmd.msg, cmd.tx_length)
    IN  [cmd EXCEPT !.msg = cmd.msg \o <<CrcLow(crc16), CrcHigh(crc16)>>,
                    !.tx_length = cmd.tx_length + 2,
                    !.rx_length = cmd.rx_length + 2]

\* Lines 145-146: the last two bytes read are the CRC of the first
\* rx_length - 2 bytes of rx_message.
CrcCheck(buf, read_length, rx_length) ==
    LET crc16response == ModRTU_CRC(buf, rx_length - 2)
    IN  /\ buf[read_length] = CrcHigh(crc16response)
        /\ buf[read_length - 1] = CrcLow(crc16response)

\* A check that does not look at the number of bytes read.
ResponseCheck_IgnoresLength(d, rx_length) ==
    /\ d.buf[1] = VFD_RS485_ADDR
    /\ CrcCheck(d.buf, rx_length, rx_length)

\* Lines 143-146 on d: rx_message (buf) after uart_read_bytes returned
\* read_length.  What was in the buffer before stays after the bytes read.
ResponseCheck(d, rx_length) ==
    /\ d.read_length = rx_length
    /\ d.buf[1] = VFD_RS485_ADDR
    /\ CrcCheck(d.buf, d.read_length, rx_length)

\* The response as the messages of lines 168-181 name it.
Classify(d, rx_length) ==
    IF ResponseCheck(d, rx_length) THEN "valid"
    ELSE IF d.read_length = 0 THEN "nodata"
    ELSE IF d.buf[1] # VFD_RS485_ADDR THEN "foreign"
    ELSE IF d.read_length # rx_length THEN "short"
    ELSE "badcrc"

\* buf padded to the length of rx_message with the byte b.
Pad(buf, b) == buf \o [i \in 1..(RxBufLen - Len(buf)) |-> b]

\* The responses of rx_length bytes from VFD_RS485_ADDR with the right CRC,
\* and the same with the two CRC bytes exchanged.
GoodFrames(rx_length) ==
    IF rx_length < 3 THEN {}
    ELSE {AddCrc(Frame(<<VFD_RS485_ADDR>> \o p, 0, FALSE)).msg :
             p \in [1..(rx_length - 3) -> ByteVals]}

SwappedFrames(rx_length) ==
    IF rx_length < 3 THEN {}
    ELSE {AddCrc_HighFirst(Frame(<<VFD_RS485_ADDR>> \o p, 0, FALSE)).msg :
             p \in [1..(rx_length - 3) -> ByteVals]}

\* What an attempt can find: any bytes in the first rx_length places of
\* rx_message, those of the frames above among them, and any count of
\* bytes read up to the count asked for, or the error value.
Deliveries(rx_length) ==
    [read_length : (0..rx_length) \cup {ReadError},
     buf : {Pad(f, 0) : f \in [1..rx_length -> ByteVals]
                            \cup GoodFrames(rx_length)
                            \cup SwappedFrames(rx_length)}]

\* A few of them for the transactions: a good frame, and four that fail:
\* nothing read, a short read over the good frame of an earlier attempt, a
\* frame of another device, a frame with a wrong CRC.
GoodSample(rx_length) ==
    IF rx_length < 3 THEN [i \in 1..RxBufLen |-> 0]
    ELSE Pad(CHOOSE f \in GoodFrames(rx_length) : TRUE, 0)

Samples(rx_length) ==
    LET good == GoodSample(rx_length)
    IN  {[read_length |-> 0, buf |-> [i \in 1..RxBufLen |-> 0]],
         [read_length |-> rx_length - 1, buf |-> good],
         [read_length |-> rx_length, buf |-> [good EXCEPT ![1] = 255]],
         [read_length |-> rx_length,
          buf |-> [good EXCEPT ![rx_length] = (@ + 1) % 256]]}

\* The link delivers the sample d until the k-th attempt and the good
\* frame from then on.
SampleRuns(rx_length) ==
    {[n \in 1..MAX_RETRIES |->
         IF n < k THEN d
         ELSE [read_length |-> rx_length, buf |-> GoodSample(rx_length)]] :
       d \in Samples(rx_length), k \in 1..(MAX_RETRIES + 1)}

\* Lines 112-128 on the command the first part of the iteration chose, cmd
\* with parser p.
FetchFrame(cmd, p) ==
    /\ task_running
    /\ pc = "top"
    /\ next_cmd' = AddCrc(cmd)
    /\ parser' = p
    /\ pc' = "fetched"
    /\ UNCHANGED <<pollidx, unresponsive, alarms, unresp_logs, sent_rpm, queue,
                   vendor, fg>>
    /\ UNCHANGED dev_vars

\* Lines 130-202 with the bytes of the responses: rxs[n] is what the n-th
\* attempt finds.
TransactFrame(rxs, happy) ==
    TaskTransact([n \in 1..MAX_RETRIES |-> Classify(rxs[n], next_cmd.rx_length)],
                 happy)

\* The task transmitting frames and checking responses, byte by byte.
NextFrame ==
    \/ VfdInit(<<0, 0>>, "ok")
    \/ \E cmd \in Commands, p \in {NoParser, "max_rpm"} : FetchFrame(cmd, p)
    \/ /\ pc = "fetched"
       /\ \E rxs \in SampleRuns(next_cmd.rx_length), happy \in BOOLEAN :
             TransactFrame(rxs, happy)

SpecFrame == InitApi /\ [][NextFrame]_vars

\* ------------------------------------------------------- the executor's faults

\* Every attempt of the run fails the checks of lines 143-146.
AllFail(resps) == \A n \in 1..MAX_RETRIES : ~Accepted(resps[n])

\* C1 (as the specification states it): a critical command whose attempts
\* all fail raises the alarm, whatever the unresponsive flag was when the
\* iteration began.
C1_CriticalFailureRaisesAlarm ==
    [][(pc = "fetched" /\ pc' = "top" /\ next_cmd.critical) =>
          \A resps \in Runs, happy \in BOOLEAN :
              (TaskTransact(resps, happy) /\ AllFail(resps)) => alarms' > alarms]_vars

\* C2: the alarm is raised only by a transaction of a critical command that
\* sent MAX_RETRIES frames and had every one of them fail; until a response
\* passes the checks the alarm is raised at most once and "Unresponsive" is
\* logged at most once, and an iteration that begins with the flag set
\* raises and logs nothing.
C2_AlarmOnlyAfterRetriesAndOnce ==
    /\ [](alarms <= 1 /\ unresp_logs <= 1)
    /\ [][alarms' > alarms =>
            /\ pc = "fetched" /\ next_cmd.critical
            /\ \E resps \in Runs, happy \in BOOLEAN :
                  /\ TaskTransact(resps, happy)
                  /\ AllFail(resps)
                  /\ Loop(resps, happy).sent = MAX_RETRIES
                  /\ Loop(resps, happy).failed = MAX_RETRIES]_vars
    /\ [][unresponsive => alarms' <= alarms /\ unresp_logs' <= unresp_logs]_vars

\* C2, witness: the alarm was raised once and the spindle is still marked
\* unresponsive.
C2_Witness == alarms = 1 /\ unresp_logs = 1 /\ unresponsive /\ pc = "top"

\* C3: a non-critical command whose attempts all fail sets the unresponsive
\* flag and raises no alarm; a response that passes the checks, with no
\* parser or with a parser that accepts it, clears the flag.
C3_NonCriticalFailureAndRecovery ==
    [][(pc = "fetched" /\ pc' = "top") =>
       \A resps \in Runs, happy \in BOOLEAN :
          TaskTransact(resps, happy) =>
              /\ (AllFail(resps) /\ ~next_cmd.critical)
                    => (unresponsive' /\ alarms' = alarms)
              /\ (~AllFail(resps) /\ (parser = NoParser \/ happy))
                    => ~unresponsive']_vars

\* C3, witness: "Unresponsive" was logged and no alarm raised, so a
\* non-critical command failed; the flag is set.
C3_Witness == unresponsive /\ unresp_logs = 1 /\ alarms = 0 /\ pc = "top"

\* ------------------------------------------------------- the queue and the cache

\* clamp(0) under the device's bounds.
ClampOfZero == IF min_rpm >= max_rpm THEN max_rpm ELSE 0

\* C4 (as the specification states it): set_state(Disable, 0) on an
\* initialized device whose cached state is not Disable leaves exactly one
\* command in the queue.
C4_DisableLeavesOneCommand ==
    [][\A cycle \in BOOLEAN, ovr \in CallOvrs :
          (vfd_ok /\ current_state # Disable
                  /\ SetState(Disable, 0, FALSE, cycle, ovr))
              => Len(queue') = 1]_vars

\* C4 (amended): set_state(Disable, 0) on an initialized device whose cached
\* state is not Disable drops the pending commands and leaves the disable
\* command at the head of the queue, alone when the cached RPM equals
\* clamp(0) and followed by the RPM command for clamp(0) otherwise.
C4_DisableLeavesDisableThenRpm ==
    [][\A cycle \in BOOLEAN, ovr \in CallOvrs :
          (vfd_ok /\ current_state # Disable
                  /\ SetState(Disable, 0, FALSE, cycle, ovr))
              => queue' = IF current_rpm = ClampOfZero
                          THEN <<ModeCmd(Disable, cycle)>>
                          ELSE <<ModeCmd(Disable, cycle), RpmCmd(ClampOfZero)>>]_vars

\* C4, witness: the queue after set_state(Disable, 0) met a cached RPM other
\* than clamp(0).
C4_Witness ==
    /\ vfd_ok /\ current_state = Disable /\ fg.at = "idle"
    /\ current_rpm = ClampOfZero /\ spindle_speed = 0
    /\ queue = <<ModeCmd(Disable, TRUE), RpmCmd(ClampOfZero)>>

\* C5 (as the specification states it): two calls of set_rpm(x) in a row,
\* the override unchanged, enqueue exactly one command in total.
C5_TwiceEnqueuesExactlyOne ==
    [][\A x \in CallRpms, o \in CallOvrs :
          (vfd_ok /\ SetRpm(x, o))
              => set_rpm(Dev, x, o).enq + (set_rpm(Dev, x, o).enq)' = 1]_vars

\* C5 (amended): of two calls of set_rpm(x) in a row, the override
\* unchanged, the first enqueues one command when the clamped value differs
\* from the cached RPM and the queue has room, and none otherwise; the
\* second enqueues nothing and leaves the cached RPM and the queue as they
\* are.
C5_SecondCallEnqueuesNothing ==
    [][\A x \in CallRpms, o \in CallOvrs :
          (vfd_ok /\ SetRpm(x, o))
              => /\ Len(queue') - Len(queue) =
                       IF current_rpm' # current_rpm /\ Len(queue) < QueueSlots
                       THEN 1 ELSE 0
                 /\ (set_rpm(Dev, x, o).enq)' = 0
                 /\ (set_rpm(Dev, x, o).q)' = queue'
                 /\ (set_rpm(Dev, x, o).rpm)' = current_rpm']_vars

\* C5, witness: the newest command in the queue is the RPM command of the
\* cached RPM: set_rpm has just enqueued it.
C5_Witness ==
    /\ vfd_ok /\ queue # <<>>
    /\ queue[Len(queue)] = RpmCmd(current_rpm)
    /\ current_rpm = MaxRpm /\ spindle_speed = MaxRpm

\* ------------------------------------------------------- the RPM clamp

\* The clamp as the specification gives it, r being rpm * override / 100.
ExpectedRpm(r) ==
    IF min_rpm < max_rpm
    THEN IF r = 0 THEN 0
         ELSE IF r < min_rpm THEN min_rpm
         ELSE IF r <= max_rpm THEN r
         ELSE max_rpm
    ELSE max_rpm

\* C6: on an initialized device set_rpm(x) under override o returns the
\* clamp of r = x * o / 100: with min < max, 0 for r = 0, min for
\* 0 < r < min, r for min <= r <= max, max for r > max; max when min >= max.
\* The call caches that value as the current RPM and, when it enqueues a
\* command, the command carries it.
C6_ClampIsPiecewise ==
    /\ [](vfd_ok => \A x \in RpmVals, o \in OvrVals :
                       set_rpm(Dev, x, o).ret = ExpectedRpm((x * o) \div 100))
    /\ [][(vfd_ok /\ fg.at = "idle") =>
            \A x \in RpmVals, o \in OvrVals :
               SetRpm(x, o) =>
                  /\ current_rpm' = ExpectedRpm((x * o) \div 100)
                  /\ queue' # queue =>
                        queue'[Len(queue')] = RpmCmd(ExpectedRpm((x * o) \div 100))]_vars

\* C6, witness: with 0 < min < max a call has left the minimum cached and
\* enqueued, after a call that had left the maximum.
C6_Witness ==
    /\ vfd_ok /\ min_rpm = MaxRpm - 1 /\ max_rpm = MaxRpm
    /\ current_rpm = min_rpm /\ spindle_speed = min_rpm
    /\ queue = <<RpmCmd(max_rpm), RpmCmd(min_rpm)>>

\* C7 (as the specification states it): the cached RPM lies in 0..max_rpm in
\* every reachable state.
C7_CurrentRpmWithinMax == current_rpm \in 0..max_rpm

\* ------------------------------------------------------- the initialization gate

\* C8: while vfd_ok is false no call of the API changes the queue, and as
\* long as no init has succeeded there is no task: it has fetched nothing
\* and sent nothing, and the queue is empty.
C8_UninitializedEnqueuesNothing ==
    /\ [](~task_running =>
             ~vfd_ok /\ pc = "top" /\ pollidx = 0 /\ next_cmd = NoCmd /\ queue = <<>>)
    /\ [][(~vfd_ok /\ UNCHANGED task_vars) => queue' = queue]_vars

\* C8, witness: set_state(Cw) was called on a device whose every init has
\* failed; the caller is in the spin-up dwell and the queue is empty.
C8_Witness ==
    /\ inited /\ ~vfd_ok /\ ~task_running
    /\ fg.at = "spinup" /\ queue = <<>>

\* C9 (as the specification states it): the task runs a transaction, and so
\* writes frames to the UART, only while vfd_ok is true.
C9_TransmitsOnlyWhileInitialized ==
    [][(pc = "fetched" /\ pc' = "top") => vfd_ok]_vars

\* C10 (as the specification states it): after an init that failed, a call
\* of set_state, set_rpm or stop changes neither the cached state, nor the
\* cached RPM, nor the queue, and does not dwell.
C10_FailedInitMakesCallsNoOps ==
    [][(inited /\ ~vfd_ok /\ fg.at = "idle") =>
          \A state \in CallStates, rpm \in CallRpms, cycle \in BOOLEAN,
             ovr \in CallOvrs :
                (SetState(state, rpm, FALSE, cycle, ovr) \/ SetRpm(rpm, ovr) \/ Stop)
                   => /\ current_state' = current_state
                      /\ current_rpm' = current_rpm
                      /\ queue' = queue
                      /\ fg'.at = "idle"]_vars

\* ------------------------------------------------------- set_state, stop, get_state

\* C11: a call of set_state while sys.abort is set changes nothing, whatever
\* its arguments and the state: the queue, the cached state, the cached RPM,
\* sys.spindle_speed and the report counter stay as they are and the caller
\* does not dwell.  (The call returns before it reads sys.state or the
\* override, so one value of each stands for all.)
C11_AbortBlocksSetState ==
    [][\A state \in SpindleStates, rpm \in CallRpms :
          SetState(state, rpm, TRUE, FALSE, 100)
             => UNCHANGED <<queue, current_state, current_rpm, spindle_speed,
                            report_ovr_counter, fg>>]_vars

\* C11, witness: a state where set_state is callable and an unblocked
\* set_state(Disable, 0) would change every one of the five fields.
C11_Witness ==
    /\ inited /\ vfd_ok /\ fg.at = "idle"
    /\ current_state = Cw /\ current_rpm = MaxRpm /\ spindle_speed = MaxRpm
    /\ queue # <<>> /\ report_ovr_counter > 0

\* C12: a set_state on an initialized device, without abort and to a state
\* other than the cached one, queues its mode command with critical =
\* (sys.state is Cycle, or the state is not Disable) and ahead of the RPM
\* command of the same call; whenever the queue has room the mode command
\* is queued; an RPM command in the queue is never critical.
C12_ModeCommandCriticalAndFirst ==
    /\ [](\A n \in 1..Len(queue) : queue[n].kind = "rpm" => ~queue[n].critical)
    /\ [][(vfd_ok /\ fg.at = "idle" /\ current_state' # current_state) =>
            \A state \in SpindleStates, rpm \in CallRpms, cycle \in BOOLEAN,
               ovr \in OvrVals :
                 (current_state # state /\ SetState(state, rpm, FALSE, cycle, ovr))
                    => LET kept == IF state = Disable THEN 0 ELSE Len(queue)
                           new  == SubSeq(queue', kept + 1, Len(queue'))
                       IN  /\ \A n \in 1..Len(new) :
                                 new[n].kind = "mode" =>
                                    /\ n = 1
                                    /\ new[n] = ModeCmd(state, cycle \/ state # Disable)
                           /\ kept < QueueSlots =>
                                 (new # <<>> /\ new[1].kind = "mode")]_vars

\* C12, witness: set_state(Ccw, MaxRpm) has queued its critical mode command
\* and then its RPM command.
C12_Witness ==
    /\ vfd_ok /\ current_state = Ccw /\ current_rpm = MaxRpm
    /\ queue = <<ModeCmd(Ccw, TRUE), RpmCmd(MaxRpm)>>

\* C13 (as the specification states it): a set_state on an initialized
\* device, without abort and to a state other than the cached one, dwells
\* before it returns: the spin-down dwell for Disable, the spin-up dwell
\* otherwise.
C13_StateChangeDwells ==
    [][(vfd_ok /\ fg.at = "idle") =>
          \A state \in CallStates, rpm \in CallRpms, cycle \in BOOLEAN,
             ovr \in CallOvrs :
               (current_state # state /\ SetState(state, rpm, FALSE, cycle, ovr))
                  => fg'.at = IF state = Disable THEN "spindown" ELSE "spinup"]_vars

\* C14: once a set_state(s, r) that abort did not block has returned,
\* get_state returns s, whether or not the VFD has seen the command; only
\* set_state, stop and init change what get_state returns.
C14_GetStateReturnsLastRequest ==
    /\ [][(fg.at = "idle" /\ UNCHANGED task_vars) =>
            \A state \in CallStates :
               \/ IF fg'.at = "idle" THEN get_state' = state
                  ELSE fg'.state = state
               \/ \A rpm \in CallRpms, cycle \in BOOLEAN, ovr \in CallOvrs :
                     ~SetState(state, rpm, FALSE, cycle, ovr)]_vars
    /\ [][SetStateReturn => get_state' = fg.state]_vars
    /\ [][get_state' # get_state =>
            /\ UNCHANGED task_vars
            /\ ~GetState
            /\ \A rpm \in CallRpms, ovr \in CallOvrs : ~SetRpm(rpm, ovr)]_vars

\* C14, witness: get_state returns Cw while the mode command of the
\* set_state(Cw) that asked for it still waits in the queue.
C14_Witness ==
    /\ vfd_ok /\ fg.at = "idle" /\ get_state = Cw
    /\ queue # <<>> /\ queue[1] = ModeCmd(Cw, TRUE)

\* C15: stop on an initialized device leaves in the queue the disable
\* command alone, not critical, sets the cached state to Disable and does
\* not dwell.
C15_StopLeavesOneDisable ==
    [][(vfd_ok /\ Stop) =>
          /\ queue' = <<ModeCmd(Disable, FALSE)>>
          /\ current_state' = Disable
          /\ fg'.at = "idle"]_vars

\* C15, witness: after stop the disable command is alone in the queue, and
\* the cached RPM and sys.spindle_speed are still those of the running
\* spindle.
C15_Witness ==
    /\ vfd_ok /\ fg.at = "idle" /\ current_state = Disable
    /\ queue = <<ModeCmd(Disable, FALSE)>>
    /\ current_rpm = MaxRpm /\ spindle_speed = MaxRpm

\* C16 (as the specification states it): on an initialized device with no
\* job running, stop leaves the cached state, the cached RPM and the queue
\* that set_state(Disable, 0) would leave from the same state.  It is taken
\* where the spindle runs (the cached state is not Disable), the case in
\* which set_state(Disable, 0) too resets the queue and queues a disable.
C16_StopEqualsSetStateDisable ==
    [][(vfd_ok /\ current_state # Disable /\ Stop) =>
          \A ovr \in CallOvrs :
             /\ current_state' = Disable
             /\ current_rpm' = set_state(Dev, Disable, 0, FALSE, ovr).rpm
             /\ queue' = set_state(Dev, Disable, 0, FALSE, ovr).q]_vars

\* ------------------------------------------------------- the task and the queue

\* C17: whatever inits are called, succeeding or failing, the queue and the
\* task are created at most once; the task, once created, is never stopped,
\* and no later init creates another.
C17_OneTaskOneQueue ==
    /\ [](tasks_created <= 1 /\ (task_running <=> tasks_created = 1))
    /\ [][task_running => (task_running' /\ tasks_created' = tasks_created)]_vars

\* C17, witness: the task exists and has worked, and the last init, called
\* after the one that created it, failed.
C17_Witness ==
    /\ tasks_created = 1 /\ task_running /\ ~vfd_ok /\ pollidx # 0

\* C18: the queue never holds more than QueueSlots commands; a set_rpm or a
\* set_state that sends onto a full queue (set_state to Disable sends onto
\* the queue it has just reset, unless the state is Disable already) leaves
\* the queue as it is, raises no alarm and returns without a dwell.
C18_FullQueueRefusesWithoutFault ==
    /\ [](Len(queue) <= QueueSlots)
    /\ [][(vfd_ok /\ fg.at = "idle" /\ Len(queue) = QueueSlots) =>
            /\ \A rpm \in CallRpms, ovr \in CallOvrs :
                  SetRpm(rpm, ovr) =>
                     (queue' = queue /\ alarms' = alarms /\ fg'.at = "idle")
            /\ \A state \in CallStates, rpm \in CallRpms, cycle \in BOOLEAN,
                  ovr \in CallOvrs :
                    ((state # Disable \/ current_state = Disable)
                        /\ SetState(state, rpm, FALSE, cycle, ovr))
                       => (queue' = queue /\ alarms' = alarms /\ fg'.at = "idle")]_vars

\* C18, witness: the queue is full and its newest command is not the one of
\* the cached RPM: the command of the last set_rpm was refused.
C18_Witness ==
    /\ vfd_ok /\ fg.at = "idle" /\ Len(queue) = QueueSlots
    /\ queue[Len(queue)] = RpmCmd(0) /\ current_rpm = MaxRpm

\* The fields a call works on once the task has taken the oldest command
\* out of the queue.
DevWithRoom == [Dev EXCEPT !.q = Tail(queue)]

\* C19 (as the specification states it): when a set_rpm(x) or a
\* set_state(s, x) had its RPM or mode command refused by the full queue,
\* the same call made again once the queue has room queues that command.
C19_IdenticalCommandRetries ==
    [][(vfd_ok /\ fg.at = "idle" /\ Len(queue) = QueueSlots) =>
          /\ \A rpm \in CallRpms, ovr \in CallOvrs :
                (SetRpm(rpm, ovr) /\ current_rpm' # current_rpm)
                   => (set_rpm(DevWithRoom, rpm, ovr).enq)' = 1
          /\ \A state \in CallStates, rpm \in CallRpms, cycle \in BOOLEAN,
                ovr \in CallOvrs :
                  (SetState(state, rpm, FALSE, cycle, ovr) /\ state # Disable
                      /\ current_state' # current_state)
                     => (set_state(DevWithRoom, state, rpm, cycle, ovr).enq)' >= 1]_vars

\* C20 (as the specification states it): a set_state(s, r) on an initialized
\* device, without abort and with s the cached state, queues no mode
\* command and leaves as cached RPM the clamp of r * override / 100, having
\* queued the RPM command when that value differs from the one cached
\* before (and the queue has room).
C20_SameStateUpdatesRpm ==
    (inited /\ vfd_ok /\ fg.at = "idle") =>
       \A rpm \in RpmVals, cycle \in BOOLEAN, ovr \in OvrVals :
          LET d == set_state(Dev, current_state, rpm, cycle, ovr)
              e == ExpectedRpm((rpm * ovr) \div 100)
          IN  /\ d.state = current_state
              /\ d.rpm = e
              /\ d.q = IF e = current_rpm THEN queue
                       ELSE xQueueSend(queue, RpmCmd(e))

\* ------------------------------------------------------- the executor's loop

\* C21 (as the specification states it): when a response that passed the
\* checks is rejected by the parser, the alarm is raised if the command was
\* critical and is not raised if it was not.
C21_RejectionEscalatesByCritical ==
    [][(pc = "fetched" /\ pc' = "top" /\ parser # NoParser) =>
          \A resps \in Runs :
              (TaskTransact(resps, FALSE) /\ Loop(resps, FALSE).accepted)
                 => (AtEnd(Loop(resps, FALSE), next_cmd.critical).raised
                        <=> next_cmd.critical)]_vars

\* C22 (as the specification states it): an iteration of the task that
\* starts while _max_rpm is 0 on a vendor that implements get_max_rpm, the
\* first iteration included, transmits the max-RPM query, marked critical.
C22_DiscoveryWhileMaxRpmUnknown ==
    [][(pc = "top" /\ max_rpm = 0 /\ vendor.max_rpm /\ TaskFetch) =>
          (pc' = "fetched" /\ next_cmd' = PollCmd("max_rpm", TRUE))]_vars

\* The requests the task builds itself: the max-RPM query of line 69 and
\* the polls of the cycle of lines 80-102.
CyclePolls == {"cur_rpm", "cur_dir", "status"}
AllPolls   == CyclePolls \cup {"max_rpm"}

\* C23 (as the specification states it): the task transmits a poll (the
\* max-RPM query or a poll of the cycle) only in an iteration that found
\* the queue empty, and an iteration that finds a command in the queue
\* transmits the head of the queue.
C23_PollsOnlyWhenQueueEmpty ==
    [][(pc = "top" /\ TaskFetch) =>
          /\ (pc' = "fetched" /\ next_cmd'.kind \in AllPolls) => queue = <<>>
          /\ queue # <<>> => (pc' = "fetched" /\ next_cmd' = Head(queue))]_vars

\* The reads of the cycle by position, and whether the vendor class
\* implements the read at position k.
ReadAt(k) == IF k = 1 THEN "cur_rpm" ELSE IF k = 2 THEN "cur_dir" ELSE "status"
Supports(k) == IF k = 1 THEN vendor.cur_rpm
               ELSE IF k = 2 THEN vendor.cur_dir ELSE vendor.status

\* C24: an iteration that finds the queue empty and the max-RPM query not
\* due transmits the first read the vendor implements among cur_rpm,
\* cur_dir, status from the position of the cycle on (the start on the
\* first iteration) and leaves the position after that read, status
\* wrapping to cur_rpm; if the vendor implements none of them it transmits
\* nothing, sleeps and restarts at cur_rpm.  On a vendor with get_status_ok
\* every iteration transmits a frame.
C24_PollCycle ==
    [][(pc = "top" /\ TaskFetch) =>
          /\ (queue = <<>> /\ ~Discovery) =>
                LET pos  == IF pollidx = 0 THEN 1 ELSE pollidx
                    from == {k \in pos..3 : Supports(k)}
                IN  IF from = {}
                    THEN pc' = "top" /\ pollidx' = 1 /\ next_cmd' = NoCmd
                    ELSE LET k == CHOOSE i \in from : \A j \in from : i <= j
                         IN  /\ pc' = "fetched"
                             /\ next_cmd'.kind = ReadAt(k)
                             /\ parser' = ReadAt(k)
                             /\ pollidx' = (k % 3) + 1
          /\ vendor.status => pc' = "fetched"]_vars

\* C24, witness: on a vendor without get_current_direction the poll after
\* cur_rpm fell through to status and the cycle is back at cur_rpm.
C24_Witness ==
    /\ vendor.cur_rpm /\ ~vendor.cur_dir
    /\ pc = "fetched"
    /\ next_cmd.kind = "status"
    /\ pollidx = 1

\* C25: when the parser rejects a response that passed the checks, that
\* attempt was the last transmission of the command, the unresponsive flag
\* is set, and the iteration goes on to its end; the parser is called at
\* most once in a transaction.
C25_RejectionEndsTransaction ==
    [][(pc = "fetched" /\ pc' = "top") =>
          \A resps \in Runs, happy \in BOOLEAN :
              TaskTransact(resps, happy) =>
                 LET t == Loop(resps, happy)
                 IN  /\ t.parsed <= 1
                     /\ (t.accepted /\ parser # NoParser /\ ~happy) =>
                           /\ t.parsed = 1
                           /\ t.sent = t.failed + 1
                           /\ unresponsive']_vars

\* C25, witness: the flag is set and no "Unresponsive" message was logged
\* since the last accepted response: the parser rejected that response.
C25_Witness == pc = "top" /\ unresponsive /\ unresp_logs = 0 /\ alarms = 0

\* What the link can deliver to the attempts of one transaction, and the
\* first attempt whose response passes the checks (MAX_RETRIES + 1: none).
AllRuns == [1..MAX_RETRIES -> Responses]
FirstAccepted(resps) ==
    IF AllFail(resps) THEN MAX_RETRIES + 1
    ELSE CHOOSE n \in 1..MAX_RETRIES :
            Accepted(resps[n]) /\ \A m \in 1..(n - 1) : ~Accepted(resps[m])

\* C26: the command of an iteration is transmitted at least once and at
\* most MAX_RETRIES times, again only after an attempt that failed the
\* checks and not after the first response that passed them; at the end of
\* the iteration the task holds no command and has put nothing back in the
\* queue, and a command taken from the queue has left it.  The task holds
\* one command at a time.
C26_TransmittedOnceToMaxRetries ==
    /\ [](pc = "fetched" =>
            \A resps \in AllRuns, happy \in BOOLEAN :
               LET t == Loop(resps, happy)
                   n == FirstAccepted(resps)
               IN  /\ 1 <= t.sent /\ t.sent <= MAX_RETRIES
                   /\ t.sent = IF n <= MAX_RETRIES THEN n ELSE MAX_RETRIES
                   /\ t.failed = IF n <= MAX_RETRIES THEN n - 1 ELSE MAX_RETRIES
                   /\ t.accepted <=> n <= MAX_RETRIES)
    /\ [](tasks_created <= 1 /\ (pc = "top" => next_cmd = NoCmd))
    /\ [][(pc = "fetched" /\ pc' = "top") =>
             (next_cmd' = NoCmd /\ queue' = queue)]_vars
    /\ [][(pc = "top" /\ pc' = "fetched" /\ next_cmd'.kind \notin AllPolls) =>
             (queue # <<>> /\ next_cmd' = Head(queue) /\ queue' = Tail(queue))]_vars

\* C26, witness: a non-critical command was transmitted MAX_RETRIES times
\* without an accepted response, and the iteration is over.
C26_Witness ==
    /\ pc = "top" /\ task_running
    /\ next_cmd = NoCmd
    /\ unresp_logs = 1 /\ alarms = 0

\* ------------------------------------------------------- frames and checksums

\* The three checks as the specification words them, on the bytes received:
\* as many as expected, the first from the bus address, the last two the
\* CRC of those before them, low byte then high byte.
ThreeChecks(d, rx_length) ==
    /\ d.read_length = rx_length
    /\ LET data == SubSeq(d.buf, 1, rx_length)
           crc  == ModRTU_CRC(SubSeq(data, 1, rx_length - 2), rx_length - 2)
       IN  /\ data[1] = VFD_RS485_ADDR
           /\ data[rx_length - 1] = CrcLow(crc)
           /\ data[rx_length] = CrcHigh(crc)

\* C27: a response is accepted exactly when it passes the three checks;
\* the attempts that fail one, for whatever reason, all leave the loop in
\* the same state, with the parser not called and the unresponsive flag as
\* it was, and a transaction of such attempts does not clear the flag or
\* store what the parser would.
C27_AcceptedIffThreeChecks ==
    /\ [](pc = "fetched" =>
            \A d \in Deliveries(next_cmd.rx_length) :
               Accepted(Classify(d, next_cmd.rx_length))
                  <=> ThreeChecks(d, next_cmd.rx_length))
    /\ [](pc = "fetched" =>
            \A resps \in AllRuns, happy \in BOOLEAN :
               AllFail(resps) =>
                  LET t == Loop(resps, happy)
                  IN  /\ t = Loop([n \in 1..MAX_RETRIES |-> "nodata"], happy)
                      /\ t.parsed = 0
                      /\ t.unresponsive = unresponsive)
    /\ [][(pc = "fetched" /\ pc' = "top") =>
            \/ max_rpm' = max_rpm /\ (unresponsive => unresponsive')
            \/ \A d \in Samples(next_cmd.rx_length), happy \in BOOLEAN :
                  \/ ThreeChecks(d, next_cmd.rx_length)
                  \/ ~TransactFrame([n \in 1..MAX_RETRIES |-> d], happy)]_vars

\* C27, witness: every response to a critical command with the max-RPM
\* parser failed a check: the alarm is raised and _max_rpm is still unknown.
C27_Witness ==
    /\ pc = "top" /\ vendor = MinimalVendor
    /\ unresponsive /\ alarms = 1 /\ max_rpm = 0

\* C28: the frame the task builds is the bytes seq of a command (the step
\* is the framing of the command seq, whose tx_length is 2 less) followed
\* by the low and the high byte of ModRTU_CRC(seq), and it passes the CRC
\* check the task applies to the responses; the CRC fits 16 bits and is
\* the Modbus one (0x4B37 for the bytes of "123456789").
C28_ChecksumRoundTrip ==
    /\ [][(pc = "top" /\ pc' = "fetched") =>
            LET frame == next_cmd'
                len   == frame.tx_length - 2
                seq   == SubSeq(frame.msg, 1, len)
                crc   == ModRTU_CRC(seq, len)
            IN  /\ len >= 0 /\ Len(frame.msg) = len + 2
                /\ FetchFrame(Frame(seq, frame.rx_length - 2, frame.critical), parser')
                /\ crc \in 0..65535
                /\ frame.msg = seq \o <<CrcLow(crc), CrcHigh(crc)>>
                /\ CrcCheck(frame.msg, frame.tx_length, frame.tx_length)]_vars
    /\ [](ModRTU_CRC(<<49, 50, 51, 52, 53, 54, 55, 56, 57>>, 9) = 19255)

\* C28, witness: a frame of the greatest length, its first byte not the
\* bus address, is ready to be transmitted.
C28_Witness ==
    /\ pc = "fetched"
    /\ next_cmd.tx_length = MaxMsgLen + 2
    /\ next_cmd.msg[1] = 255

\* ------------------------------------------------------- the task and the link

\* Lines 229-263: an init that finds its pins and settings deletes the UART
\* driver, configures the port and its pins and installs the driver again;
\* a successful init ran all of them.
ReconfiguresUart(outcome) == outcome = "ok"

\* C29 (as the specification states it): while the task is in a
\* transaction (between the choice of its command and the end of the
\* iteration, lines 130-202: uart_flush, uart_write_bytes, uart_read_bytes)
\* no foreground call touches the UART.
C29_OnlyTheTaskTouchesTheLink ==
    [][(task_running /\ pc = "fetched") =>
          \A cfg \in RpmSettings, outcome \in InitOutcomes :
              VfdInit(cfg, outcome) => ~ReconfiguresUart(outcome)]_vars

\* C30: the task never waits forever.  An iteration that has chosen its
\* command reaches its end, after at most MAX_RETRIES attempts whatever the
\* link delivers, and a task at the top of its loop with something to send
\* (a command in the queue, or a vendor with get_status_ok) goes on to
\* choose its next command.
C30_TaskNeverBlocks ==
    /\ (pc = "fetched") ~> (pc = "top")
    /\ (task_running /\ pc = "top" /\ (vendor.status \/ queue # <<>>))
          ~> (pc = "fetched")
    /\ [](pc = "fetched" =>
            \A resps \in AllRuns, happy \in BOOLEAN :
               Loop(resps, happy).sent <= MAX_RETRIES)

\* C30, witness: an iteration whose attempts all failed is over, with the
\* queue full, and the task is about to start the next.
C30_Witness ==
    /\ task_running /\ pc = "top"
    /\ unresponsive
    /\ Len(queue) = QueueSlots

\* ------------------------------------------------------- the queue under fairness

\* A disable command: set_mode(Disable, .) queued it.
IsDisable(cmd) == cmd.kind = "mode" /\ cmd.val = Disable

\* C31 (as the specification states it): under weak fairness of the task a
\* command at the head of the queue is eventually taken by the task for
\* transmission unless the queue is cleared first; in particular, with a
\* disable command at the head of the queue (a clear by set_mode(Disable)
\* puts another there), the task eventually takes a disable command.
C31_QueuedDisableIsTransmitted ==
    (queue # <<>> /\ IsDisable(Head(queue)))
       ~> (pc = "fetched" /\ IsDisable(next_cmd))


\* ------------------------------------------------------- cache and device

\* Nothing is queued and no command is in flight.
Quiescent == queue = <<>> /\ pc = "top"

\* C32 (as the specification states it): after the successful init, with a
\* single foreground caller and a link on which every transaction
\* succeeds, whenever the queue is empty and no command is in flight the
\* RPM of the last set_rpm command sent to the VFD (0 before any) is the
\* cached _current_rpm.
C32_CacheAgreesAtQuiescence ==
    (vfd_ok /\ Quiescent) => sent_rpm = <<current_rpm>>

\* ------------------------------------------------------- re-initialization

\* What a step does to the queue: nothing, the sends of a call at its end,
\* the reset of a disable followed by that command and what the call sends
\* after it, or the task taking the head as the command it transmits next.
Sent     == UNCHANGED task_vars /\ Len(queue') > Len(queue)
               /\ SubSeq(queue', 1, Len(queue)) = queue
Flushed  == UNCHANGED task_vars /\ queue' # <<>> /\ IsDisable(Head(queue'))
Dequeued == pc = "top" /\ pc' = "fetched" /\ queue # <<>>
               /\ next_cmd' = Head(queue) /\ queue' = Tail(queue)

==========================================================================
